---- MODULE Spec2Model ----
(***************************************************************************)
(* Model of webrtc-signaling-server.py: the ConnectionManager registry,    *)
(* the overflow room allocation and the per-connection coroutine           *)
(* websocket_endpoint.  The server runs on one asyncio event loop, so the  *)
(* code between two awaits is one atomic step; every action below runs a   *)
(* coroutine from the moment one of its awaits resumes to the moment its   *)
(* next await is issued.                                                   *)
(***************************************************************************)
EXTENDS Integers, Sequences, FiniteSets, TLC

\* ---------------------------------------------------------------- bounds
NumSessions == 3
MaxCap == 3

Sessions == 1..NumSessions

\* ------------------------------------------------------- python values
\* None / "" for the two locals whose truthiness is all the code tests
NoClient == 0
NoRoom == ""
NoName == ""
\* a key that is missing from a received field map
Absent == "<absent>"

\* --------------------------------------------------------- dict helpers
Put(f, k, v) == [x \in (DOMAIN f) \cup {k} |-> IF x = k THEN v ELSE f[x]]

Drop(f, k) == [x \in (DOMAIN f) \ {k} |-> f[x]]

Get(f, k, default) == IF k \in DOMAIN f THEN f[k] ELSE default

EmptyDict == [x \in {} |-> 0]

SetMin(S) == CHOOSE x \in S : \A y \in S : x <= y

\* ------------------------------------------------------------ variables
VARIABLES
    manager,   \* the ConnectionManager object
    sess,      \* one record of locals per websocket_endpoint coroutine
    alive,     \* alive[s]: the peer of websocket s has not gone away
    out        \* what the last step did and the frame it handed to a socket

vars == <<manager, sess, alive, out>>

\* ---------------------------------------------------- ConnectionManager
ConnectionManager(max_peers_per_room) ==
    [active_connections |-> EmptyDict,
     client_names       |-> EmptyDict,
     client_rooms       |-> EmptyDict,
     client_ips         |-> EmptyDict,
     client_counter     |-> 0,
     max_peers_per_room |-> max_peers_per_room]

disconnect(m, client_id) ==
    IF client_id \in DOMAIN m.active_connections
    THEN [m EXCEPT !.active_connections = Drop(@, client_id),
                   !.client_names = Drop(@, client_id),
                   !.client_rooms = Drop(@, client_id),
                   !.client_ips = Drop(@, client_id)]
    ELSE m

register_client(m, client_id, room_id, websocket, ip_address, peer_name) ==
    [m EXCEPT !.active_connections = Put(@, client_id, websocket),
              !.client_ips = Put(@, client_id, ip_address),
              !.client_rooms = Put(@, client_id, room_id),
              !.client_names = IF peer_name # NoName
                               THEN Put(@, client_id, peer_name) ELSE @]

get_peers_in_room(m, room_id) ==
    {cid \in DOMAIN m.client_rooms : m.client_rooms[cid] = room_id}

overflow_name(requested_room, overflow_index) ==
    requested_room \o "_" \o ToString(overflow_index)

RoomHasSpace_full(m, room) ==
    Cardinality(get_peers_in_room(m, room)) <= m.max_peers_per_room

RoomHasSpace(m, room) ==
    Cardinality(get_peers_in_room(m, room)) < m.max_peers_per_room

RECURSIVE probe_overflow(_, _, _)
probe_overflow(m, requested_room, overflow_index) ==
    LET overflow_room == overflow_name(requested_room, overflow_index)
    IN  IF RoomHasSpace(m, overflow_room)
        THEN <<overflow_room, TRUE>>
        ELSE probe_overflow(m, requested_room, overflow_index + 1)

FirstOverflowIndex_zero == 1 - 1

FirstOverflowIndex == 1

find_available_room(m, requested_room) ==
    IF RoomHasSpace(m, requested_room)
    THEN <<requested_room, FALSE>>
    ELSE probe_overflow(m, requested_room, FirstOverflowIndex)

\* ------------------------------------------------------- received frames
\* targetId as it arrives: missing, a number, a string of digits, or a
\* value int() refuses.
TAbsent == [k |-> "absent", v |-> 0]

TInt(n) == [k |-> "int", v |-> n]

TStr(n) == [k |-> "str", v |-> n]

TBad == [k |-> "bad", v |-> 0]

\* int(target_id): the number, or ValueError
int_raises(target_id) == target_id.k = "bad"

int(target_id) == target_id.v

Negotiation == {"offer", "answer", "ice-candidate"}

Msg(type, targetId, peerName, name, roomId) ==
    [type |-> type, targetId |-> targetId, peerName |-> peerName,
     name |-> name, roomId |-> roomId]

NoMsg == Msg("", TAbsent, Absent, Absent, Absent)

\* a frame that decodes to something other than a field map
NonDict == Msg("<nondict>", TAbsent, Absent, Absent, Absent)

\* no target, a value int() refuses, 0, the first client as a string of
\* digits, the last client as a number
TargetIds == {TAbsent, TBad, TInt(0), TStr(1), TInt(NumSessions)}

\* The first frame of a connection, for the room "r" and named by either
\* key.  Lines 222-223 read its name and room; its type and targetId are
\* read at lines 268-273 only, and the model draws them there.
FirstMessages ==
    {Msg("", TAbsent, pn[1], pn[2], "r") :
        pn \in {<<"A", Absent>>, <<Absent, "A">>}}

FirstTypes ==
    {Msg(ty[1], ty[2], Absent, Absent, Absent) :
        ty \in {<<"join", TAbsent>>, <<"offer", TAbsent>>,
                <<"offer", TStr(1)>>, <<"offer", TBad>>}}

\* a frame of the shape of a first frame, asking for a room nobody is in
JoinShaped == Msg("join", TAbsent, "A", Absent, "q")

\* The frames of the message loop.
LoopMessages ==
    {Msg("offer", tid, Absent, Absent, Absent) : tid \in TargetIds}
    \cup {Msg("screen-share-stopped", tid, Absent, Absent, Absent) :
             tid \in {TAbsent, TStr(1)}}
    \cup {Msg(ty, TAbsent, Absent, Absent, Absent) :
             ty \in {"get-peers", "ping"}}
    \cup {Msg("chat", TAbsent, Absent, Absent, "q")}
    \cup {JoinShaped}

\* first_data.get("peerName") or first_data.get("name")
peer_name_of(first_data) ==
    IF first_data.peerName \notin {Absent, NoName} THEN first_data.peerName
    ELSE IF first_data.name = Absent THEN NoName ELSE first_data.name

\* first_data.get("roomId") or "default"
requested_room_of(first_data) ==
    IF first_data.roomId \notin {Absent, ""} THEN first_data.roomId
    ELSE "default"

\* --------------------------------------------------------- sent frames
Frame(type, from, n, room, orig, peers) ==
    [type |-> type, from |-> from, n |-> n, room |-> room, orig |-> orig,
     peers |-> peers]

NoFrame == Frame("", NoClient, 0, NoRoom, NoRoom, {})

Send(to, mode, frame) == [to |-> to, mode |-> mode, frame |-> frame]

NoSend == Send(NoClient, "none", NoFrame)

welcome_frame(client_id, peers_count, room_id) ==
    Frame("welcome", client_id, peers_count, room_id, NoRoom, {})

redirect_frame_swapped(requested_room, room_id) ==
    Frame("room-redirect", NoClient, 0, requested_room, room_id, {})

redirect_frame(requested_room, room_id) ==
    Frame("room-redirect", NoClient, 0, room_id, requested_room, {})

peer_connected_frame(client_id, n) ==
    Frame("peer-connected", client_id, n, NoRoom, NoRoom, {})

peers_left_excluding_recipient(m, room_id) ==
    Cardinality(get_peers_in_room(m, room_id)) - 1

peers_left(m, room_id) == Cardinality(get_peers_in_room(m, room_id))

peer_disconnected_frame(m, client_id, room_id) ==
    Frame("peer-disconnected", client_id, peers_left(m, room_id),
          NoRoom, NoRoom, {})

\* {**data, "senderId": client_id}; chat and mute-state are re-encoded with
\* the same type and senderId
forward_frame(data, client_id) ==
    Frame(data.type, client_id, 0, NoRoom, NoRoom, {})

peer_list_frame(m, room_id, client_id) ==
    Frame("peer-list", NoClient, 0, NoRoom, NoRoom,
          get_peers_in_room(m, room_id) \ {client_id})

\* ------------------------------------------------------- dict iteration
\* "for client_id, connection in self.active_connections.items()" with an
\* await in the loop body.  CPython's dict iterator remembers the size of
\* the dict when the loop starts, its position in insertion order and how
\* many items are left.  Keys are inserted in increasing order (the counter)
\* and never re-inserted, so insertion order is key order.
NewIter(d) ==
    [used |-> Cardinality(DOMAIN d), pos |-> 0, len |-> Cardinality(DOMAIN d)]

NoIter == [used |-> 0, pos |-> 0, len |-> 0]

dict_next(d, it) ==
    IF Cardinality(DOMAIN d) # it.used
    THEN [kind |-> "RuntimeError", key |-> 0, it |-> it]
    ELSE LET rest == {k \in DOMAIN d : k > it.pos}
         IN  IF rest = {}
             THEN [kind |-> "StopIteration", key |-> 0, it |-> it]
             ELSE IF it.len = 0
             THEN [kind |-> "RuntimeError", key |-> 0, it |-> it]
             ELSE [kind |-> "item", key |-> SetMin(rest),
                   it |-> [it EXCEPT !.pos = SetMin(rest), !.len = @ - 1]]

\* ------------------------------------------- websocket_endpoint locals
\* pc is the await the coroutine is suspended on; where is the part of the
\* function it is in: "join" (the handshake inside try), "loop" (the
\* message loop inside try) or "except" (one of the two handlers).
\* to_notify (the members found by the handler that no peer-disconnected
\* frame went to yet), did (what the running step executed) and read (the
\* frame whose type the running step read) are history; a coroutine that
\* returns while a client of to_notify is still registered adds
\* "unnotified" to did.
NewSession ==
    [pc |-> "joining", where |-> "join",
     client_id |-> NoClient, room_id |-> NoRoom,
     requested_room |-> NoRoom, was_redirected |-> FALSE,
     first_data |-> NoMsg, overflow_index |-> 0, peers_in_room |-> 0,
     message |-> NoFrame, it |-> NoIter, disconnected_clients |-> {},
     target |-> NoClient, connection |-> 0,
     to_notify |-> {}, did |-> {}, read |-> NoMsg]

Result(m, l, send) == [m |-> m, l |-> l, send |-> send]

Did(l, what) == [l EXCEPT !.did = @ \cup {what}]

\* locals that are dead once the coroutine waits in receive_json again
ClearTransient(l) ==
    [l EXCEPT !.first_data = NoMsg, !.peers_in_room = 0,
              !.message = NoFrame, !.it = NoIter,
              !.disconnected_clients = {}, !.target = NoClient,
              !.connection = 0]

\* the coroutine returns (or an exception leaves it) and its locals are gone
Return(m, l) ==
    Result(m, [NewSession EXCEPT
                  !.pc = "done",
                  !.read = l.read,
                  !.did = l.did \cup
                          (IF l.to_notify \cap DOMAIN m.active_connections # {}
                           THEN {"unnotified"} ELSE {})],
           NoSend)

\* "while True: data = await websocket.receive_json()"
AwaitReceive(m, l) ==
    Result(m, [ClearTransient(l) EXCEPT !.pc = "active", !.where = "loop",
                                        !.requested_room = NoRoom,
                                        !.was_redirected = FALSE],
           NoSend)

\* of a send that is awaited, only broadcast reads the recipient again
AwaitSend(m, l, pc, to, connection, mode, frame) ==
    Result(m, IF mode = "broadcast"
              THEN [l EXCEPT !.pc = pc, !.target = to,
                             !.connection = connection]
              ELSE [l EXCEPT !.pc = pc],
           Send(to, mode, frame))

\* ----------------------------------------------------------- broadcast
broadcast_selects_any_room(m, client_id, exclude_client_id, room_id) ==
    client_id # exclude_client_id

broadcast_selects(m, client_id, exclude_client_id, room_id) ==
    /\ client_id # exclude_client_id
    /\ Get(m.client_rooms, client_id, NoRoom) = room_id

RECURSIVE disconnect_all(_, _)
disconnect_all(m, disconnected_clients) ==
    IF disconnected_clients = {} THEN m
    ELSE LET client_id == SetMin(disconnected_clients)
         IN  disconnect_all(disconnect(m, client_id),
                            disconnected_clients \ {client_id})

\* lines 124-129.  Every caller goes on to receive_json, and a failure of
\* the send is only logged: the coroutine resumes from this await without
\* reading or writing anything, so the await of the send and the await of
\* the next frame are one suspension.
send_personal_message(m, l, message, client_id) ==
    IF client_id \in DOMAIN m.active_connections
    THEN Result(m, AwaitReceive(m, l).l, Send(client_id, "personal", message))
    ELSE AwaitReceive(m, l)

RECURSIVE broadcast_loop(_, _), handle_exception(_, _)

\* lines 267-283: the first message, if it is a signaling message
route_first(m, l0) ==
    LET l == [Did(l0, "route_first") EXCEPT !.read = l0.first_data]
        first_data == l.first_data
    IN  IF first_data.type \in Negotiation /\ first_data.targetId # TAbsent
        THEN IF int_raises(first_data.targetId)
             THEN handle_exception(m, Did(l, "malformed"))
             ELSE LET target_id == int(first_data.targetId)
                  IN  IF /\ Get(m.client_rooms, target_id, NoRoom) = l.room_id
                         /\ target_id \in DOMAIN m.active_connections
                      THEN send_personal_message(
                               m, l, forward_frame(first_data, l.client_id),
                               target_id)
                      ELSE AwaitReceive(m, l)
        ELSE AwaitReceive(m, l)

\* lines 144-146, then back in the caller up to its next await
broadcast_end(m0, l) ==
    LET m == disconnect_all(m0, l.disconnected_clients)
    IN  CASE l.where = "join" -> route_first(m, l)
          [] l.where = "loop" -> AwaitReceive(m, l)
          [] OTHER -> Return(m, l)

\* lines 134-142: from the loop head to the next send_json
broadcast_loop(m, l) ==
    LET nx == dict_next(m.active_connections, l.it)
    IN  CASE nx.kind = "RuntimeError" ->
                handle_exception(m, Did(l, "RuntimeError"))
          [] nx.kind = "StopIteration" -> broadcast_end(m, l)
          [] OTHER ->
                IF broadcast_selects(m, nx.key, l.client_id, l.room_id)
                THEN AwaitSend(m,
                         [l EXCEPT !.it = nx.it,
                                   !.to_notify =
                                       IF l.where = "except"
                                       THEN @ \ {nx.key} ELSE @],
                         "broadcast", nx.key, m.active_connections[nx.key],
                         "broadcast", l.message)
                ELSE broadcast_loop(m, [l EXCEPT !.it = nx.it])

broadcast(m, l, message) ==
    broadcast_loop(m, [l EXCEPT !.message = message,
                                !.it = NewIter(m.active_connections),
                                !.disconnected_clients = {}])

except_disconnect_skipped(m, client_id) == m

except_disconnect(m, client_id) == disconnect(m, client_id)

\* lines 368-392: both handlers run the same code; an exception raised
\* inside a handler leaves the coroutine
handle_exception(m0, l0) ==
    IF l0.where = "except" THEN Return(m0, l0)
    ELSE IF l0.client_id = NoClient THEN Return(m0, Did(l0, "except"))
    ELSE LET m == except_disconnect(m0, l0.client_id)
             l == [Did(l0, "except") EXCEPT
                      !.where = "except",
                      !.to_notify = get_peers_in_room(m, l0.room_id)]
         IN  IF l.room_id # NoRoom
             THEN broadcast(m, l,
                      peer_disconnected_frame(m, l.client_id, l.room_id))
             ELSE Return(m, l)

\* ------------------------------------------------------- join handshake
next_client_id_reused(m) == Cardinality(DOMAIN m.active_connections) + 1

next_client_id_not_incremented(m) == m.client_counter

\* "manager.client_counter += 1; client_id = manager.client_counter"
next_client_id(m) == m.client_counter + 1

ip_of(websocket) == "Unknown"

\* lines 222-247: from the first frame to the send of the welcome
join(m0, l0, websocket, first_data) ==
    LET peer_name == peer_name_of(first_data)
        requested_room == requested_room_of(first_data)
        found == find_available_room(m0, requested_room)
        room_id == found[1]
        was_redirected == found[2]
        client_id == next_client_id(m0)
        m == register_client([m0 EXCEPT !.client_counter = client_id],
                             client_id, room_id, websocket,
                             ip_of(websocket), peer_name)
        peers_in_room == Cardinality(get_peers_in_room(m, room_id))
        peers_count == peers_in_room - 1
        l == [l0 EXCEPT
                 !.requested_room = requested_room,
                 !.room_id = room_id,
                 !.was_redirected = was_redirected,
                 !.client_id = client_id,
                 !.peers_in_room = peers_in_room]
    IN  AwaitSend(m, l, "welcome", client_id, websocket, "self",
                  welcome_frame(client_id, peers_count, room_id))

\* lines 258-265
announce(m, l) ==
    broadcast(m, l, peer_connected_frame(l.client_id, l.peers_in_room))

\* lines 249-256, after the welcome went out
after_welcome(m, l0, websocket) ==
    LET l == Did(l0, "welcome_ok")
    IN  IF l.was_redirected
        THEN AwaitSend(m, l, "redirect", l.client_id, websocket, "self",
                       redirect_frame(l.requested_room, l.room_id))
        ELSE announce(m, l)

\* ---------------------------------------------------------- message loop
\* "if target_id:" after the coercion of line 301
target_given(target_id) == target_id # 0

\* lines 346-355
screen_share_stopped(m, l, data) ==
    IF data.targetId # TAbsent
    THEN IF int_raises(data.targetId)
         THEN handle_exception(m, Did(l, "malformed"))
         ELSE LET target_id == int(data.targetId)
              IN  IF /\ Get(m.client_rooms, target_id, NoRoom) = l.room_id
                     /\ target_id \in DOMAIN m.active_connections
                  THEN send_personal_message(
                           m, l, forward_frame(data, l.client_id), target_id)
                  ELSE AwaitReceive(m, l)
    ELSE AwaitReceive(m, l)

\* lines 296-320
negotiation(m, l, data) ==
    IF data.targetId # TAbsent /\ int_raises(data.targetId)
    THEN handle_exception(m, Did(l, "malformed"))
    ELSE LET target_id == IF data.targetId = TAbsent THEN 0
                          ELSE int(data.targetId)
         IN  IF target_given(target_id)
             THEN IF /\ Get(m.client_rooms, target_id, NoRoom) = l.room_id
                     /\ target_id \in DOMAIN m.active_connections
                  THEN send_personal_message(
                           m, l, forward_frame(data, l.client_id), target_id)
                  ELSE AwaitReceive(m, l)
             ELSE broadcast(m, l, forward_frame(data, l.client_id))

update_peer_name_in_rooms(m, client_id, data) ==
    IF data.peerName # Absent /\ client_id # NoClient
    THEN [m EXCEPT !.client_rooms = Put(@, client_id, data.peerName)]
    ELSE m

\* lines 289-291: "if "peerName" in data and client_id:"
update_peer_name(m, client_id, data) ==
    IF data.peerName # Absent /\ client_id # NoClient
    THEN [m EXCEPT !.client_names = Put(@, client_id, data.peerName)]
    ELSE m

\* lines 286-366: one received frame, up to the next await
dispatch(m0, l0, websocket, data) ==
    IF data = NonDict
    THEN handle_exception(m0, Did(l0, "malformed"))
    ELSE
    LET m == update_peer_name(m0, l0.client_id, data)
        l == [l0 EXCEPT !.read = data]
    IN  CASE data.type \in Negotiation -> negotiation(m, l, data)
          [] data.type \in {"chat", "mute-state"} ->
                broadcast(m, l, forward_frame(data, l.client_id))
          [] data.type = "screen-share-stopped" ->
                screen_share_stopped(m, l, data)
          [] data.type = "get-peers" ->
                AwaitSend(m, l, "peer_list", l.client_id, websocket, "self",
                          peer_list_frame(m, l.room_id, l.client_id))
          [] OTHER -> AwaitReceive(m, l)

\* ------------------------------------------------------------- the steps
\* the history of a step that sent nothing and did nothing a property reads
NoOut ==
    [by |-> 0, did |-> {}, read |-> NoMsg, to |-> NoClient, mode |-> "none",
     frame |-> NoFrame]

\* A step of coroutine s ends at its next await: the registry and the
\* locals are stored, the frame handed to a socket is recorded in out, and
\* the socket of a coroutine that returned is closed.
Step(s, r) ==
    /\ manager' = r.m
    /\ sess' = [sess EXCEPT ![s] = [r.l EXCEPT !.did = {}, !.read = NoMsg,
                                             !.first_data = NoMsg]]
    /\ out' = IF r.l.did = {} /\ r.send = NoSend THEN NoOut
               ELSE [by |-> s, did |-> r.l.did, read |-> r.l.read,
                     to |-> r.send.to, mode |-> r.send.mode,
                     frame |-> r.send.frame]
    /\ alive' = IF r.l.pc = "done" THEN [alive EXCEPT ![s] = FALSE] ELSE alive

Init ==
    /\ manager \in {ConnectionManager(c) : c \in 1..MaxCap}
    /\ sess = [s \in Sessions |-> NewSession]
    /\ alive = [s \in Sessions |-> TRUE]
    /\ out = NoOut

\* the peer goes away; frames it sent before may still be read
ClientClose(s) ==
    /\ alive[s]
    /\ alive' = [alive EXCEPT ![s] = FALSE]
    /\ out' = NoOut
    /\ UNCHANGED <<manager, sess>>

\* Coroutines are numbered in the order in which they join; those whose
\* first receive_json raises carry the highest numbers, the first to fail
\* the highest.
Join(s) ==
    /\ sess[s].pc = "joining"
    /\ manager.client_counter = s - 1
    /\ \E first_data \in FirstMessages :
           Step(s, join(manager, sess[s], s, first_data))

\* the first receive_json raises (the peer is gone, or the frame is no
\* field map): nothing is registered yet
JoinFails(s) ==
    /\ sess[s].pc = "joining"
    /\ \A t \in Sessions : t > s => sess[t].pc = "done"
    /\ \E first_data \in {NoMsg, NonDict} :
           /\ first_data = NoMsg => ~alive[s]
           /\ Step(s, handle_exception(manager, sess[s]))

\* the locals of s, with the part of its first frame not read yet
Locals(s, first_data) == [sess[s] EXCEPT !.first_data = first_data]

Unread(s) == IF sess[s].where = "join" THEN FirstTypes ELSE {NoMsg}

WelcomeSent(s) ==
    /\ sess[s].pc = "welcome"
    /\ \E first_data \in Unread(s) :
           LET l == Locals(s, first_data)
           IN  Step(s, IF alive[s] THEN after_welcome(manager, l, s)
                       ELSE handle_exception(manager, l))

RedirectSent(s) ==
    /\ sess[s].pc = "redirect"
    /\ \E first_data \in Unread(s) :
           LET l == Locals(s, first_data)
           IN  Step(s, IF alive[s] THEN announce(manager, l)
                       ELSE handle_exception(manager, l))

\* lines 138-142: the send to one recipient returned or raised
BroadcastSent(s) ==
    /\ sess[s].pc = "broadcast"
    /\ \E first_data \in Unread(s) :
           LET l == Locals(s, first_data)
           IN  Step(s, broadcast_loop(manager,
                         IF alive[l.connection] THEN l
                         ELSE [l EXCEPT !.disconnected_clients =
                                            @ \cup {l.target}]))

PeerListSent(s) ==
    /\ sess[s].pc = "peer_list"
    /\ Step(s, IF alive[s] THEN AwaitReceive(manager, sess[s])
               ELSE handle_exception(manager, sess[s]))

Receive(s) ==
    /\ sess[s].pc = "active"
    /\ \E data \in LoopMessages \cup {NonDict} :
           Step(s, dispatch(manager, sess[s], s, data))

\* receive_json raises WebSocketDisconnect
ReceiveDisconnect(s) ==
    /\ sess[s].pc = "active"
    /\ ~alive[s]
    /\ Step(s, handle_exception(manager, sess[s]))

Next ==
    \E s \in Sessions :
        \/ ClientClose(s)
        \/ Join(s)
        \/ JoinFails(s)
        \/ WelcomeSent(s)
        \/ RedirectSent(s)
        \/ BroadcastSent(s)
        \/ PeerListSent(s)
        \/ Receive(s)
        \/ ReceiveDisconnect(s)

Spec == Init /\ [][Next]_vars

\* ------------------------------------------------------------ properties
RoomsInUse == {manager.client_rooms[c] : c \in DOMAIN manager.client_rooms}

ClientIds == 1..NumSessions

\* C1: at every moment no room holds more members than
\* max_peers_per_room; a join that asks for a room at capacity is therefore
\* registered in another room.
C1_Capacity ==
    \A room \in RoomsInUse :
        Cardinality(get_peers_in_room(manager, room))
            <= manager.max_peers_per_room

\* C1 happens: the requested room is exactly full and a later join was put
\* into its first overflow room.
C1_Witness ==
    /\ Cardinality(get_peers_in_room(manager, "r"))
           = manager.max_peers_per_room
    /\ get_peers_in_room(manager, overflow_name("r", 1)) # {}

\* C3: a frame that broadcast() hands to a socket goes to a client other
\* than the sender that is registered in the room of the sender, and it
\* carries the sender's id.
C3_MulticastIsolation ==
    out.mode = "broadcast" =>
        /\ out.to # sess[out.by].client_id
        /\ out.to \in DOMAIN manager.client_rooms
        /\ manager.client_rooms[out.to] = sess[out.by].room_id
        /\ out.frame.from = sess[out.by].client_id
        /\ sess[out.by].client_id \in DOMAIN manager.client_rooms =>
               manager.client_rooms[sess[out.by].client_id]
                   = sess[out.by].room_id

\* C3 happens: a negotiation frame without target is multicast while
\* another client sits in a different room.
C3_Witness ==
    /\ out.mode = "broadcast"
    /\ out.frame.type = "offer"
    /\ out.read.targetId = TAbsent
    /\ \E c \in DOMAIN manager.client_rooms :
           manager.client_rooms[c] # sess[out.by].room_id

\* C5: an id that was assigned and is no longer registered is never
\* registered again, in no room, whatever is received or disconnected later.
C5_NoResurrection ==
    [][\A c \in ClientIds :
           (c <= manager.client_counter /\ c \notin DOMAIN manager.client_rooms)
               => /\ c \notin DOMAIN manager'.client_rooms
                  /\ c \notin DOMAIN manager'.active_connections
                  /\ \A room \in {manager'.client_rooms[d] :
                                     d \in DOMAIN manager'.client_rooms} :
                         c \notin get_peers_in_room(manager', room)]_vars

\* C5 happens: a client was removed and a later client has joined since.
C5_Witness ==
    \E c \in ClientIds :
        /\ c < manager.client_counter
        /\ c \notin DOMAIN manager.client_rooms
        /\ manager.client_counter \in DOMAIN manager.client_rooms

\* the coroutine whose step out records, and the room it serves
Sender == sess[out.by].client_id

SenderRoom == sess[out.by].room_id

\* a step of the message loop handled a frame with a targetId that int()
\* accepts and forwarded that frame
ForwardedWithTarget ==
    /\ out.read.type \in Negotiation \cup {"screen-share-stopped"}
    /\ out.read.targetId.k \in {"int", "str"}
    /\ "route_first" \notin out.did
    /\ out.frame.type = out.read.type

\* C2: a frame of the message loop that names a target T, whatever integer
\* T is, is handed to the socket of T alone, and only while T is registered
\* in the room of the sender; nobody else is sent it.
C2_UnicastRouting ==
    ForwardedWithTarget =>
        /\ out.mode = "personal"
        /\ out.to = int(out.read.targetId)
        /\ out.to \in DOMAIN manager.client_rooms
        /\ manager.client_rooms[out.to] = SenderRoom
        /\ out.frame.from = Sender

\* C4: a coroutine that cleans up after its client never returns while a
\* client that was a member of the room when the handler ran, and is still
\* registered, has not been sent peer-disconnected.
C4_AllMembersNotified == "unnotified" \notin out.did

\* client b, one of the two members a and b of a room, is removed by its
\* own handler, which sends peer-disconnected to a
LastOfTwoLeaves(a, b) ==
    /\ a # b
    /\ b \in DOMAIN manager.client_rooms
    /\ get_peers_in_room(manager, manager.client_rooms[b]) = {a, b}
    /\ b \notin DOMAIN manager'.client_rooms
    /\ out'.frame.type = "peer-disconnected"
    /\ out'.frame.from = b
    /\ out'.to = a

\* C7, as the code has it: when B leaves the room it shared with A alone,
\* the peer-disconnected frame A is sent carries peersInRoom = 1, the
\* number of clients left in the room, A included.
C7_CountIncludesRecipient ==
    [][\A a, b \in ClientIds : LastOfTwoLeaves(a, b) => out'.frame.n = 1]_vars

\* C7, as claimed: that frame carries peersInRoom = 0.
C7_CountExcludesRecipient ==
    [][\A a, b \in ClientIds : LastOfTwoLeaves(a, b) => out'.frame.n = 0]_vars

\* C7 happens: the handler of the second client of a room has just sent
\* peer-disconnected to the one client left.
C7_Witness ==
    /\ out.frame.type = "peer-disconnected"
    /\ "except" \in out.did
    /\ out.frame.from = out.by
    /\ manager.client_counter >= 2
    /\ get_peers_in_room(manager, SenderRoom) = {out.to}
    /\ out.frame.n = 1

\* C8: the welcome names the room the client is registered in; a coroutine
\* whose welcome send returned sends room-redirect next if and only if that
\* room is not the requested one; room-redirect is sent at no other place,
\* and names the requested room as originalRoom and the registered room as
\* assignedRoom.  (A welcome send that raises ends the handshake.)
C8_RedirectNotice ==
    [][\A s \in Sessions :
          /\ (sess[s].pc = "joining" /\ sess'[s].pc = "welcome") =>
                 /\ out'.frame.type = "welcome"
                 /\ out'.to = sess'[s].client_id
                 /\ out'.frame.room = sess'[s].room_id
                 /\ manager'.client_rooms[sess'[s].client_id]
                        = sess'[s].room_id
          /\ (sess[s].pc = "welcome" /\ sess'[s].pc # "welcome" /\ alive[s]) =>
                 ((out'.by = s /\ out'.frame.type = "room-redirect")
                      <=> sess[s].room_id # sess[s].requested_room)
          /\ (out'.by = s /\ out'.frame.type = "room-redirect") =>
                 /\ sess[s].pc \in {"welcome", "redirect"}
                 /\ out'.to = sess[s].client_id
                 /\ out'.frame.orig = sess[s].requested_room
                 /\ out'.frame.room = sess[s].room_id
                 /\ manager'.client_rooms[sess[s].client_id]
                        = sess[s].room_id]_vars

\* C8 happens: capacity 1, client 1 in "r", client 2 asked for "r", is
\* registered in "r_1" and is sent the notice.
C8_Witness ==
    /\ manager.max_peers_per_room = 1
    /\ out.frame.type = "room-redirect"
    /\ out.to = 2
    /\ out.frame.orig = "r"
    /\ out.frame.room = overflow_name("r", 1)
    /\ 1 \in get_peers_in_room(manager, "r")
    /\ 2 \in get_peers_in_room(manager, overflow_name("r", 1))

\* C9: a first frame of a negotiation type without targetId is multicast,
\* with the sender's id, to the other members of the assigned room, as the
\* message loop would do.
C9_FirstMessageRouted ==
    (/\ "route_first" \in out.did
     /\ out.read.type \in Negotiation
     /\ out.read.targetId = TAbsent
     /\ get_peers_in_room(manager, SenderRoom) \ {Sender} # {})
        => /\ out.mode = "broadcast"
           /\ out.frame.type = out.read.type
           /\ out.frame.from = Sender

\* C10: a frame of the message loop that is no field map, or whose targetId
\* int() rejects, is dropped and nothing else happens: the client stays
\* registered, no peer-disconnected is sent for it, and its coroutine waits
\* for the next frame.
C10_MalformedNonFatal ==
    ("malformed" \in out.did /\ "route_first" \notin out.did)
        => /\ out.by \in DOMAIN manager.active_connections
           /\ out.frame.type # "peer-disconnected"
           /\ sess[out.by].pc = "active"

\* ----------------------------------------------- the allocator by itself
\* find_available_room applied to registries of every shape: up to
\* MaxRegistered clients spread over a room, its overflow rooms and an
\* overflow room of an overflow room, then MaxAllocations further joins and
\* any number of disconnects.
MaxRegistered == 3

MaxAllocations == 2

RoomNames ==
    {"r", overflow_name("r", 1), overflow_name("r", 2),
     overflow_name(overflow_name("r", 1), 1)}

Requests == {"r", overflow_name("r", 1)}

Registry(max_peers_per_room, client_rooms) ==
    [ConnectionManager(max_peers_per_room) EXCEPT
         !.active_connections = [c \in DOMAIN client_rooms |-> c],
         !.client_names = [c \in DOMAIN client_rooms |-> "A"],
         !.client_rooms = client_rooms,
         !.client_ips = [c \in DOMAIN client_rooms |-> ip_of(c)],
         !.client_counter = MaxRegistered]

WithinCapacity(m) ==
    \A room \in RoomNames :
        Cardinality(get_peers_in_room(m, room)) <= m.max_peers_per_room

Registries ==
    {m \in {Registry(c, client_rooms) :
                c \in 1..MaxCap,
                client_rooms \in UNION {[ids -> RoomNames] :
                                           ids \in SUBSET (1..MaxRegistered)}} :
        WithinCapacity(m)}

RegistryInit ==
    /\ manager \in Registries
    /\ sess = [s \in Sessions |-> [NewSession EXCEPT !.pc = "done"]]
    /\ alive = [s \in Sessions |-> FALSE]
    /\ out = NoOut

\* lines 226-231 of a join: choose the room, count, register
Allocate(requested_room) ==
    /\ manager.client_counter < MaxRegistered + MaxAllocations
    /\ LET found == find_available_room(manager, requested_room)
           client_id == next_client_id(manager)
       IN  manager' = register_client(
                          [manager EXCEPT !.client_counter = client_id],
                          client_id, found[1], client_id, ip_of(client_id),
                          "A")
    /\ UNCHANGED <<sess, alive, out>>

Leave(client_id) ==
    /\ client_id \in DOMAIN manager.active_connections
    /\ manager' = disconnect(manager, client_id)
    /\ UNCHANGED <<sess, alive, out>>

RegistryNext ==
    \/ \E requested_room \in Requests : Allocate(requested_room)
    \/ \E client_id \in 1..(MaxRegistered + MaxAllocations) : Leave(client_id)

SpecRegistry == RegistryInit /\ [][RegistryNext]_vars

Occupancy(room) == Cardinality(get_peers_in_room(manager, room))

\* more rooms than clients cannot be full
MaxIndex == MaxRegistered + MaxAllocations + 1

\* C6: find_available_room returns the requested room, not redirected,
\* exactly when that room is below capacity; otherwise it returns, as
\* redirected, the overflow room of the smallest index n >= 1 that is below
\* capacity, so the requested room and the overflow rooms 1 .. n-1 are full.
C6_OverflowSelection ==
    \A requested_room \in Requests :
        LET found == find_available_room(manager, requested_room)
        IN  /\ found = <<requested_room, FALSE>>
                   <=> Occupancy(requested_room) < manager.max_peers_per_room
            /\ Occupancy(requested_room) >= manager.max_peers_per_room =>
                   \E n \in 1..MaxIndex :
                       /\ found = <<overflow_name(requested_room, n), TRUE>>
                       /\ Occupancy(overflow_name(requested_room, n))
                              < manager.max_peers_per_room
                       /\ \A k \in 1..(n - 1) :
                              Occupancy(overflow_name(requested_room, k))
                                  >= manager.max_peers_per_room

\* C6 happens: "r" and "r_1" are full and "r_2" is chosen, while a request
\* for "r_1" is sent on to "r_1_1".
C6_Witness ==
    /\ find_available_room(manager, "r") = <<overflow_name("r", 2), TRUE>>
    /\ find_available_room(manager, overflow_name("r", 1))
           = <<overflow_name(overflow_name("r", 1), 1), TRUE>>
    /\ manager.client_counter > MaxRegistered

\* ------------------------------------------- properties of broadcast
\* coroutine s resumes, in the message loop, from a broadcast send that
\* raised
FailedSendResumes(s) ==
    /\ sess[s].pc = "broadcast"
    /\ sess[s].where = "loop"
    /\ ~alive[sess[s].connection]
    /\ sess'[s] # sess[s]

\* the recipients the suspended broadcast of s has not reached yet
Remaining(s) ==
    {c \in DOMAIN manager.active_connections :
        /\ c > sess[s].it.pos
        /\ broadcast_selects(manager, c, sess[s].client_id, sess[s].room_id)}

\* C11: when one send of a broadcast of the message loop fails, the
\* broadcast goes on with the next recipient, and the sender stays in its
\* loop, stays registered and no peer-disconnected is sent for it.
C11_SendFailureIsolated ==
    [][\A s \in Sessions :
          FailedSendResumes(s) =>
              /\ sess'[s].where = "loop"
              /\ sess[s].client_id \in DOMAIN manager.active_connections
                     => sess[s].client_id \in DOMAIN manager'.active_connections
              /\ ~(/\ out'.frame.type = "peer-disconnected"
                   /\ out'.frame.from = sess[s].client_id)
              /\ Remaining(s) # {} =>
                     /\ out'.by = s
                     /\ out'.mode = "broadcast"
                     /\ out'.to = SetMin(Remaining(s))
                     /\ out'.frame = sess[s].message]_vars

\* client c is removed from the registry by a step of a coroutine other
\* than its own
RemovedByAnother(c) ==
    /\ c \in DOMAIN manager.client_rooms
    /\ c \notin DOMAIN manager'.client_rooms
    /\ \E s \in Sessions : sess[s].client_id = c /\ sess'[s] = sess[s]

\* C12: the coroutine whose broadcast removes a recipient M after a failed
\* send does for M what M's own handler would do: with M removed it sends
\* peer-disconnected for M to the members left in M's room.
C12_FailedRecipientCleanup ==
    [][\A c \in ClientIds :
          (/\ RemovedByAnother(c)
           /\ get_peers_in_room(manager', manager.client_rooms[c]) # {})
              => /\ out'.frame.type = "peer-disconnected"
                 /\ out'.frame.from = c
                 /\ out'.to \in get_peers_in_room(manager',
                                                  manager.client_rooms[c])]_vars

\* C19: the iteration of a broadcast over the connection map is never
\* aborted because another coroutine registered or removed a client while
\* the broadcast was suspended on a send.
C19_BroadcastSurvivesMutation == "RuntimeError" \notin out.did

\* ------------------------------------------ properties of the registry
IdsInUse ==
    /\ manager.client_counter >= 0
    /\ manager.client_counter = 0 => DOMAIN manager.active_connections = {}
    /\ \A c \in DOMAIN manager.active_connections :
           1 <= c /\ c <= manager.client_counter
    /\ \A s \in Sessions :
           sess[s].client_id # NoClient =>
               /\ 1 <= sess[s].client_id
               /\ sess[s].client_id <= manager.client_counter
               /\ \A u \in Sessions \ {s} :
                      sess[u].client_id # sess[s].client_id

IdsAssigned ==
    /\ manager'.client_counter >= manager.client_counter
    /\ \A s \in Sessions :
           (sess[s].client_id = NoClient /\ sess'[s].client_id # NoClient) =>
               /\ manager'.client_counter = manager.client_counter + 1
               /\ sess'[s].client_id = manager'.client_counter
    /\ \A c \in DOMAIN manager'.active_connections :
           c \notin DOMAIN manager.active_connections =>
               /\ c = manager'.client_counter
               /\ c > manager.client_counter

\* C13: ids come from a counter that starts at 0 and grows by one with
\* every join, so the first id is 1; no two coroutines hold the same id, a
\* newly registered id was never used before, and every registered id lies
\* between 1 and the counter.
C13_IdentityUniqueness == []IdsInUse /\ [][IdsAssigned]_vars

\* C13 happens: three ids were assigned, the first is gone and the other
\* two are registered at once.
C13_Witness ==
    /\ manager.client_counter = 3
    /\ 1 \notin DOMAIN manager.active_connections
    /\ {2, 3} \subseteq DOMAIN manager.active_connections
    /\ sess[2].client_id = 2
    /\ sess[3].client_id = 3

\* C14: disconnect(id) leaves no record of id in any of the four maps; a
\* second call, or a call for an id that is not registered, changes
\* nothing; the records of the other ids are untouched.
C14_DisconnectIdempotent ==
    \A id \in 1..(NumSessions + 1) :
        LET d == disconnect(manager, id)
        IN  /\ id \notin DOMAIN d.active_connections
            /\ id \notin DOMAIN d.client_names
            /\ id \notin DOMAIN d.client_rooms
            /\ id \notin DOMAIN d.client_ips
            /\ disconnect(d, id) = d
            /\ id \notin DOMAIN manager.active_connections => d = manager
            /\ \A c \in ClientIds \ {id} :
                   /\ c \in DOMAIN manager.active_connections
                          <=> c \in DOMAIN d.active_connections
                   /\ Get(d.client_names, c, NoName)
                          = Get(manager.client_names, c, NoName)
                   /\ Get(d.client_rooms, c, NoRoom)
                          = Get(manager.client_rooms, c, NoRoom)

\* C15: the connection, room and address maps have the same keys, and the
\* name map has no key the connection map lacks; a name carried by a frame
\* of a client no longer registered leaves no entry.
C15_RegistryConsistent ==
    /\ DOMAIN manager.client_rooms = DOMAIN manager.active_connections
    /\ DOMAIN manager.client_ips = DOMAIN manager.active_connections
    /\ DOMAIN manager.client_names \subseteq DOMAIN manager.active_connections

RoomAsRegistered ==
    \A s \in Sessions :
        sess[s].client_id \in DOMAIN manager.client_rooms =>
            manager.client_rooms[sess[s].client_id] = sess[s].room_id

RoomKept ==
    /\ \A c \in DOMAIN manager.client_rooms \cap DOMAIN manager'.client_rooms :
           manager'.client_rooms[c] = manager.client_rooms[c]
    /\ \A s \in Sessions :
           (sess[s].pc = "active" /\ sess'[s] # sess[s]) =>
               /\ manager'.client_counter = manager.client_counter
               /\ DOMAIN manager'.client_rooms
                      \subseteq DOMAIN manager.client_rooms
               /\ sess'[s].pc # "done" =>
                      /\ sess'[s].room_id = sess[s].room_id
                      /\ sess'[s].client_id = sess[s].client_id

\* C16: a registered client's room never changes and is the room its
\* coroutine routes with; a frame received in the message loop, also one
\* that names a room or has the shape of a first frame, registers nobody,
\* assigns no id and moves nobody.
C16_RoomFixed == []RoomAsRegistered /\ [][RoomKept]_vars

\* C16 happens: a frame of the message loop that names room "q" was
\* relayed, and sender and recipient sit in the room they joined.
C16_Witness ==
    /\ out.read.roomId = "q"
    /\ out.mode = "broadcast"
    /\ Sender \in DOMAIN manager.client_rooms
    /\ manager.client_rooms[Sender] = "r"
    /\ manager.client_rooms[out.to] = "r"
    /\ "q" \notin RoomsInUse

Relayed == Negotiation \cup {"chat", "mute-state", "screen-share-stopped"}

\* C17: a relayed frame goes out only while its sender is registered, in
\* the room of the recipient; a client that was removed gets no peer-list.
C17_OnlyRegisteredRelayed ==
    /\ (out.mode \in {"broadcast", "personal"} /\ out.frame.type \in Relayed)
           => /\ out.frame.from \in DOMAIN manager.client_rooms
              /\ out.to \in DOMAIN manager.client_rooms
              /\ manager.client_rooms[out.frame.from]
                     = manager.client_rooms[out.to]
    /\ out.frame.type = "peer-list" =>
           out.to \in DOMAIN manager.active_connections

\* C18: a peer that is sent peer-disconnected for X knows X.  Ids are
\* assigned in the order of joining, so when the coroutine of X fails
\* before it started its peer-connected broadcast, only peers that joined
\* after X can know X.
C18_DisconnectAfterConnect ==
    [][\A s \in Sessions :
          (/\ sess[s].pc \in {"welcome", "redirect"}
           /\ out'.by = s
           /\ out'.frame.type = "peer-disconnected")
              => out'.to > out'.frame.from]_vars

\* ------------------------------------------ the allocator, probe by probe
\* find_available_room run one loop iteration at a time, for every value
\* --max-peers can have: argparse takes any integer (line 405) and
\* ConnectionManager stores it unchecked (line 53).  A registry with a
\* capacity below 1 is empty, since no join got past line 226.  The call
\* runs between two awaits, so one coroutine at a time is inside it, and
\* it registers (lines 229-231) before another enters.
LowestCap == 0 - 1

MaxProbes == MaxRegistered + NumSessions + 2

StartupRegistries ==
    Registries \cup {ConnectionManager(c) : c \in LowestCap..0}

ProbeInit ==
    /\ manager \in StartupRegistries
    /\ sess = [s \in Sessions |-> NewSession]
    /\ alive = [s \in Sessions |-> TRUE]
    /\ out = NoOut

\* lines 111-116
FindStart(s, requested_room) ==
    /\ sess[s].pc = "joining"
    /\ \A u \in Sessions : sess[u].pc \in {"joining", "registered"}
    /\ sess' = [sess EXCEPT ![s] =
                   IF RoomHasSpace(manager, requested_room)
                   THEN [@ EXCEPT !.pc = "found",
                                  !.requested_room = requested_room,
                                  !.room_id = requested_room,
                                  !.was_redirected = FALSE]
                   ELSE [@ EXCEPT !.pc = "probing",
                                  !.requested_room = requested_room,
                                  !.overflow_index = FirstOverflowIndex]]
    /\ UNCHANGED <<manager, alive, out>>

\* lines 117-122: one iteration of "while True"
ProbeStep(s) ==
    /\ sess[s].pc = "probing"
    /\ sess[s].overflow_index <= MaxProbes
    /\ LET overflow_room == overflow_name(sess[s].requested_room,
                                          sess[s].overflow_index)
       IN  sess' = [sess EXCEPT ![s] =
                       IF RoomHasSpace(manager, overflow_room)
                       THEN [@ EXCEPT !.pc = "found",
                                      !.room_id = overflow_room,
                                      !.was_redirected = TRUE,
                                      !.overflow_index = 0]
                       ELSE [@ EXCEPT !.overflow_index = @ + 1]]
    /\ UNCHANGED <<manager, alive, out>>

\* lines 229-231
RegisterFound(s) ==
    /\ sess[s].pc = "found"
    /\ LET client_id == next_client_id(manager)
       IN  /\ manager' = register_client(
                             [manager EXCEPT !.client_counter = client_id],
                             client_id, sess[s].room_id, s, ip_of(s), "A")
           /\ sess' = [sess EXCEPT ![s] = [@ EXCEPT !.pc = "registered",
                                                    !.client_id = client_id]]
    /\ UNCHANGED <<alive, out>>

ProbeNext ==
    \E s \in Sessions :
        \/ \E requested_room \in Requests : FindStart(s, requested_room)
        \/ ProbeStep(s)
        \/ RegisterFound(s)

SpecProbe == ProbeInit /\ [][ProbeNext]_vars

\* C20: find_available_room returns after finitely many probes, whatever
\* capacity the process was started with: no more rooms than there are
\* clients can be full, so the probe never gets past the index (number of
\* clients) + 1; and the room it returns is below capacity.
C20_AllocationTerminates ==
    \A s \in Sessions :
        /\ sess[s].pc = "probing" =>
               sess[s].overflow_index
                   <= Cardinality(DOMAIN manager.client_rooms) + 1
        /\ sess[s].pc = "found" =>
               Occupancy(sess[s].room_id) < manager.max_peers_per_room

====
